---- MODULE Spec2Model ----
(***************************************************************************)
(* Qubit routing environments of routing/env.py: the base RoutingEnv, the  *)
(* SequentialRoutingEnv and the LayeredRoutingEnv, on the T-shaped device  *)
(* of qcp_routing.py.  Physical nodes and logical qubits are small         *)
(* integers starting at 0; a circuit is the sequence of its operations in  *)
(* program order and a DAG operation node is its index in that sequence.   *)
(***************************************************************************)
EXTENDS Integers, Sequences, FiniteSets, TLC

\* ---------------------------------------------------------------- bounds
Max2q == 2             \* two-qubit gates in the circuit handed to the environment
Max1q == 1             \* single-qubit gates in that circuit
MaxSteps == 2          \* step()/reset() calls made after the first reset
MaxEpisode == 4        \* steps of an episode driven by the action mask
CircuitQubits == 3     \* circuit.num_qubits before reset pads it with ancillas
MaxCopySteps == 1      \* steps taken on either instance after a copy()
MaxRate == 2           \* largest error rate of an edge, in units
MaxCalibCalls == 2     \* calibrate()/step() calls after the reset of a calibrated run
MaxScanLen == 4        \* longest circuit given to a single scheduling pass

\* ------------------------------------------------------ connectivity model
num_qubits == 5

edge_list == << <<0, 1>>, <<1, 2>>, <<1, 3>>, <<3, 4>> >>

num_edges == Len(edge_list)

Nodes == 0 .. (num_qubits - 1)

Range(s) == {s[k] : k \in DOMAIN s}

has_edge(a, b) ==
    \E k \in 1 .. num_edges : edge_list[k] = <<a, b>> \/ edge_list[k] = <<b, a>>

RECURSIVE Ball(_, _)
Ball(S, d) ==
    IF d = 0 THEN S
    ELSE LET B == Ball(S, d - 1)
         IN  B \cup {b \in Nodes : \E a \in B : has_edge(a, b)}

distance_matrix ==
    [a \in Nodes |-> [b \in Nodes |->
        CHOOSE d \in 0 .. num_qubits :
            /\ b \in Ball({a}, d)
            /\ (d = 0 \/ b \notin Ball({a}, d - 1))]]

RECURSIVE PathTo(_, _)
PathTo(a, b) ==
    IF a = b THEN <<a>>
    ELSE LET m == CHOOSE n \in Nodes :
                      has_edge(a, n) /\ distance_matrix[n][b] = distance_matrix[a][b] - 1
         IN  <<a>> \o PathTo(m, b)

shortest_paths == [a \in Nodes |-> [b \in Nodes |-> PathTo(a, b)]]

PairLess(p, q) == p[1] < q[1] \/ (p[1] = q[1] /\ p[2] < q[2])

RECURSIVE SortedPairs(_)
SortedPairs(S) ==
    IF S = {} THEN <<>>
    ELSE LET p == CHOOSE x \in S : \A y \in S \ {x} : PairLess(x, y)
         IN  <<p>> \o SortedPairs(S \ {p})

AllBridgePairs ==
    SortedPairs({p \in Nodes \X Nodes : p[1] < p[2] /\ distance_matrix[p[1]][p[2]] = 2})

\* ------------------------------------------------------------ the state
VARIABLES
    variant,                        \* "sequential" | "layered" (the class)
    circuit,                        \* self.circuit
    initial_mapping,                \* self.initial_mapping
    allow_bridge_gate,              \* self.allow_bridge_gate
    commutation_analysis,           \* self.commutation_analysis
    restrict_swaps_to_front_layer,  \* SequentialRoutingEnv only
    node_to_qubit,
    qubit_to_node,
    dag,                            \* operation nodes still in self.dag
    routed_gates,                   \* the routed-operations log
    routed_op_nodes,
    num_scheduled_2q_gates,         \* self._num_scheduled_2q_gates
    scheduling_reward,              \* self._scheduling_reward
    blocked_swap,                   \* self._blocked_swap, NoAction for None
    scheduling_map,                 \* LayeredRoutingEnv.scheduling_map._map
    call,                           \* the last call and what it returned
    steps,                          \* calls made so far
    visited,                        \* states a mask-driven episode has been in
    other,                          \* the instance copy() returned, if any
    noise_config,                   \* self.noise_config, NoNoise for None
    error_rates,                    \* self.error_rates
    log_reliabilities,              \* self.log_reliabilities (noise-aware only)
    edge_to_log_reliability         \* self.edge_to_log_reliability (noise-aware only)

config == <<variant, circuit, initial_mapping, allow_bridge_gate,
            commutation_analysis, restrict_swaps_to_front_layer>>

vars == <<variant, circuit, initial_mapping, allow_bridge_gate,
          commutation_analysis, restrict_swaps_to_front_layer,
          node_to_qubit, qubit_to_node, dag, routed_gates, routed_op_nodes,
          num_scheduled_2q_gates, scheduling_reward, blocked_swap,
          scheduling_map, call, steps, visited, other,
          noise_config, error_rates, log_reliabilities, edge_to_log_reliability>>

calibration == <<noise_config, error_rates, log_reliabilities, edge_to_log_reliability>>

NoAction == -1

\* self.bridge_pairs (built once in __init__)
bridge_pairs == IF allow_bridge_gate THEN AllBridgePairs ELSE <<>>

\* ------------------------------------------------- circuit representation
GateNames == {"cx", "h"}

CircuitQubitIds == 0 .. (CircuitQubits - 1)

Gates ==
    {[name |-> "cx", qargs |-> <<p[1], p[2]>>] :
        p \in {x \in CircuitQubitIds \X CircuitQubitIds : x[1] # x[2]}}
    \cup {[name |-> "h", qargs |-> <<a>>] : a \in CircuitQubitIds}

CountOf(c, name) == Cardinality({k \in DOMAIN c : c[k].name = name})

Circuits ==
    {c \in UNION {[1 .. n -> Gates] : n \in 0 .. (Max2q + Max1q)} :
        CountOf(c, "cx") <= Max2q /\ CountOf(c, "h") <= Max1q}

OpNodes == 1 .. Len(circuit)

Qargs(i) == circuit[i].qargs

SharesQubit(i, j) == Range(Qargs(i)) \cap Range(Qargs(j)) # {}

RECURSIVE SortedSeq(_)
SortedSeq(S) ==
    IF S = {} THEN <<>>
    ELSE LET m == CHOOSE x \in S : \A y \in S : x <= y
         IN  <<m>> \o SortedSeq(S \ {m})

\* DAGCircuit.front_layer(): operations with no remaining predecessor
FrontLayerSet(d) == {i \in d : \A j \in d : j < i => ~SharesQubit(i, j)}

front_layer(d) == SortedSeq(FrontLayerSet(d))

\* dag_utils.dag_layers: the layer decomposition of the remaining DAG
RECURSIVE dag_layers(_)
dag_layers(d) ==
    IF d = {} THEN <<>>
    ELSE <<front_layer(d)>> \o dag_layers(d \ FrontLayerSet(d))

RECURSIVE Chain(_)
Chain(layers) ==
    IF layers = <<>> THEN <<>> ELSE Head(layers) \o Chain(Tail(layers))

\* Whether two operations of the circuit commute (CX pairs commute when the
\* qubits they share are controls of both or targets of both).
Commute(i, j) ==
    LET a == circuit[i]
        b == circuit[j]
        shared == Range(a.qargs) \cap Range(b.qargs)
    IN  IF shared = {} THEN TRUE
        ELSE IF a.name = "cx" /\ b.name = "cx"
             THEN \A q \in shared :
                     \/ (a.qargs[1] = q /\ b.qargs[1] = q)
                     \/ (a.qargs[2] = q /\ b.qargs[2] = q)
             ELSE a = b

\* CommutationAnalysis.run: on every wire the operations, in wire order, are
\* grouped greedily; an operation joins the last group when it commutes with
\* every member of it and opens a new group otherwise.
RECURSIVE GroupWire(_, _)
GroupWire(ops, groups) ==
    IF ops = <<>> THEN groups
    ELSE LET i == Head(ops)
             n == Len(groups)
         IN  IF n > 0 /\ \A k \in 1 .. Len(groups[n]) : Commute(i, groups[n][k])
             THEN GroupWire(Tail(ops), [groups EXCEPT ![n] = Append(@, i)])
             ELSE GroupWire(Tail(ops), Append(groups, <<i>>))

commutation_set(q) ==
    GroupWire(SortedSeq({i \in OpNodes : q \in Range(Qargs(i))}), <<>>)

\* commutation_set[qubit][commutation_set[(op_node, qubit)]]
CommutingGroup(i, q) ==
    LET groups == commutation_set(q)
        idx == CHOOSE k \in 1 .. Len(groups) : i \in Range(groups[k])
    IN  groups[idx]

\* --------------------------------------------------------------- scheduler
NodesOf(i, q2n) == [k \in 1 .. Len(Qargs(i)) |-> q2n[Qargs(i)[k]]]

\* _is_schedulable without the connectivity test
SchedulableIgnoringEdges(nodes, locked_nodes) ==
    locked_nodes \cap Range(nodes) = {}

_is_schedulable(nodes, locked_nodes) ==
    LET valid_under_current_mapping == Len(nodes) # 2 \/ has_edge(nodes[1], nodes[2])
        not_blocked == locked_nodes \cap Range(nodes) = {}
    IN  valid_under_current_mapping /\ not_blocked

\* OrderedSet.add
AddGate(gates, g) ==
    IF \E k \in 1 .. Len(gates) : gates[k] = g THEN gates ELSE Append(gates, g)

RECURSIVE AddAll(_, _)
AddAll(gates, gs) ==
    IF gs = <<>> THEN gates ELSE AddAll(AddGate(gates, Head(gs)), Tail(gs))

\* The commuting operations offered for one blocked operation: for each of its
\* qargs whose index is not in locked_nodes, the other not yet routed members
\* of its commutation group that are schedulable.
RECURSIVE CommutingGates(_, _, _, _, _)
CommutingGates(i, k, q2n, routed, locked_nodes) ==
    IF k > Len(Qargs(i)) THEN <<>>
    ELSE LET qubit == Qargs(i)[k]
             group == IF qubit \notin locked_nodes THEN CommutingGroup(i, qubit) ELSE <<>>
             cands == SelectSeq(group, LAMBDA c :
                          /\ c # i
                          /\ c \notin routed
                          /\ _is_schedulable(NodesOf(c, q2n), locked_nodes))
             found == [n \in 1 .. Len(cands) |-> <<cands[n], NodesOf(cands[n], q2n)>>]
         IN  found \o CommutingGates(i, k + 1, q2n, routed, locked_nodes)

\* a scan in which a blocked operation does not lock its nodes
RECURSIVE ScanWithoutLocking(_, _, _, _, _, _)
ScanWithoutLocking(ops, gates, locked_nodes, q2n, routed, comm) ==
    IF ops = <<>> THEN gates
    ELSE LET op_node == Head(ops)
             nodes == NodesOf(op_node, q2n)
             ok == _is_schedulable(nodes, locked_nodes)
             gates2 == IF ok THEN AddGate(gates, <<op_node, nodes>>)
                       ELSE IF comm
                            THEN AddAll(gates, CommutingGates(op_node, 1, q2n, routed, locked_nodes))
                            ELSE gates
         IN  ScanWithoutLocking(Tail(ops), gates2, locked_nodes, q2n, routed, comm)

\* a scan that already stops when all nodes but one are locked
RECURSIVE ScanStoppingSooner(_, _, _, _, _, _)
ScanStoppingSooner(ops, gates, locked_nodes, q2n, routed, comm) ==
    IF ops = <<>> THEN gates
    ELSE LET op_node == Head(ops)
             nodes == NodesOf(op_node, q2n)
             ok == _is_schedulable(nodes, locked_nodes)
             gates2 == IF ok THEN AddGate(gates, <<op_node, nodes>>)
                       ELSE IF comm
                            THEN AddAll(gates, CommutingGates(op_node, 1, q2n, routed, locked_nodes))
                            ELSE gates
             locked2 == IF ok THEN locked_nodes ELSE locked_nodes \cup Range(nodes)
         IN  IF Cardinality(locked2) >= num_qubits - 1 THEN gates2
             ELSE ScanStoppingSooner(Tail(ops), gates2, locked2, q2n, routed, comm)

RECURSIVE Scan(_, _, _, _, _, _)
Scan(ops, gates, locked_nodes, q2n, routed, comm) ==
    IF ops = <<>> THEN gates
    ELSE LET op_node == Head(ops)
             nodes == NodesOf(op_node, q2n)
             ok == _is_schedulable(nodes, locked_nodes)
             gates2 == IF ok THEN AddGate(gates, <<op_node, nodes>>)
                       ELSE IF comm
                            THEN AddAll(gates, CommutingGates(op_node, 1, q2n, routed, locked_nodes))
                            ELSE gates
             locked2 == IF ok THEN locked_nodes ELSE locked_nodes \cup Range(nodes)
         IN  IF Cardinality(locked2) = num_qubits THEN gates2
             ELSE Scan(Tail(ops), gates2, locked2, q2n, routed, comm)

\* RoutingEnv._schedulable_gates
BaseSchedulableGates(d, q2n, routed, comm, only_front_layer) ==
    LET layers == IF only_front_layer THEN <<front_layer(d)>> ELSE dag_layers(d)
    IN  Scan(Chain(layers), <<>>, {}, q2n, routed, comm)

\* LayeredRoutingEnv._schedulable_gates
LayeredSchedulableGates(d, q2n, routed, comm, only_front_layer, smap) ==
    SelectSeq(BaseSchedulableGates(d, q2n, routed, comm, only_front_layer),
              LAMBDA g : DOMAIN smap \cap Range(g[2]) = {})

\* ------------------------------------------- mapping state and primitives
\* The mutable attributes of one environment, threaded through a call.
Cur ==
    [n2q |-> node_to_qubit, q2n |-> qubit_to_node, dag |-> dag,
     log |-> routed_gates, routed |-> routed_op_nodes, smap |-> scheduling_map,
     num |-> num_scheduled_2q_gates, rew |-> scheduling_reward]

InverseOf(n2q) == [q \in Nodes |-> CHOOSE n \in Nodes : n2q[n] = q]

\* SchedulingMap.update_all(keys) with the default value 1
update_all(smap, keys) ==
    [k \in DOMAIN smap \cup keys |-> IF k \in keys THEN 1 ELSE smap[k]]

\* a decrement that keeps the entries that reach 0
DecrementKeepingZero(smap) ==
    [k \in DOMAIN smap |-> smap[k] - 1]

\* SchedulingMap.decrement: every entry loses one, entries reaching 0 are deleted
decrement(smap) ==
    [k \in {n \in DOMAIN smap : smap[n] - 1 # 0} |-> smap[k] - 1]

\* _remove_op_node that records the node but leaves it in the DAG
RecordWithoutRemoving(st, op_node) ==
    [st EXCEPT !.routed = @ \cup {op_node}]

\* _remove_op_node that removes the node without recording it
RemoveWithoutRecording(st, op_node) ==
    [st EXCEPT !.dag = @ \ {op_node}]

_remove_op_node(st, op_node) ==
    [st EXCEPT !.dag = @ \ {op_node}, !.routed = @ \cup {op_node}]

\* _swap that forgets to move the second qubit in qubit_to_node
SwapStaleInverse(st, edge) ==
    LET qubit_a == st.n2q[edge[1]]
        qubit_b == st.n2q[edge[2]]
    IN  [st EXCEPT !.log = Append(@, [name |-> "swap", qargs |-> edge, node |-> 0]),
                   !.n2q = [@ EXCEPT ![edge[1]] = qubit_b, ![edge[2]] = qubit_a],
                   !.q2n = [@ EXCEPT ![qubit_a] = edge[2]],
                   !.smap = IF variant = "layered" THEN update_all(@, Range(edge)) ELSE @]

\* _swap that logs the qubits node_to_qubit holds at the edge's nodes
SwapLoggingMappedQubits(st, edge) ==
    LET qubit_a == st.n2q[edge[1]]
        qubit_b == st.n2q[edge[2]]
    IN  [st EXCEPT !.log = Append(@, [name |-> "swap", qargs |-> <<qubit_a, qubit_b>>, node |-> 0]),
                   !.n2q = [@ EXCEPT ![edge[1]] = qubit_b, ![edge[2]] = qubit_a],
                   !.q2n = [@ EXCEPT ![qubit_a] = edge[2], ![qubit_b] = edge[1]],
                   !.smap = IF variant = "layered" THEN update_all(@, Range(edge)) ELSE @]

\* RoutingEnv._swap, followed by LayeredRoutingEnv._swap's locking
_swap(st, edge) ==
    LET node_a == edge[1]
        node_b == edge[2]
        qubit_a == st.n2q[node_a]
        qubit_b == st.n2q[node_b]
        logged == Append(st.log, [name |-> "swap", qargs |-> edge, node |-> 0])
        n2q == [st.n2q EXCEPT ![node_a] = qubit_b, ![node_b] = qubit_a]
        q2n == [st.q2n EXCEPT ![qubit_a] = node_b, ![qubit_b] = node_a]
    IN  [st EXCEPT !.log = logged, !.n2q = n2q, !.q2n = q2n,
                   !.smap = IF variant = "layered" THEN update_all(@, Range(edge)) ELSE @]

\* RoutingEnv._bridge, followed by LayeredRoutingEnv._bridge's locking
_bridge(st, nodes) ==
    [st EXCEPT !.log = Append(@, [name |-> "bridge", qargs |-> nodes, node |-> 0]),
               !.smap = IF variant = "layered" THEN update_all(@, Range(nodes)) ELSE @]

SortedPair(nodes) ==
    IF nodes[1] <= nodes[2] THEN <<nodes[1], nodes[2]>> ELSE <<nodes[2], nodes[1]>>

\* The front-layer CX gates whose qubits sit on the node pair
BridgeMatches(st, pair) ==
    {i \in FrontLayerSet(st.dag) :
        circuit[i].name = "cx" /\ SortedPair(NodesOf(i, st.q2n)) = pair}

None == <<>>

\* a _bridge_args that searches the whole DAG and returns the last match
BridgeArgsAnyLayer(st, pair) ==
    LET matches == {i \in st.dag :
                       circuit[i].name = "cx" /\ SortedPair(NodesOf(i, st.q2n)) = pair}
    IN  IF matches = {} THEN None
        ELSE LET op_node == CHOOSE i \in matches : \A j \in matches : i >= j
                 nodes == NodesOf(op_node, st.q2n)
             IN  <<op_node, shortest_paths[nodes[1]][nodes[2]]>>

\* RoutingEnv._bridge_args: (op_node, (control, middle, target)) or None
_bridge_args(st, pair) ==
    IF BridgeMatches(st, pair) = {} THEN None
    ELSE LET op_node == CHOOSE i \in BridgeMatches(st, pair) :
                            \A j \in BridgeMatches(st, pair) : i <= j
             nodes == NodesOf(op_node, st.q2n)
         IN  <<op_node, shortest_paths[nodes[1]][nodes[2]]>>

\* ------------------------------------------------------------ reward model
\* noise_config = None
NoNoise == [aware |-> FALSE]

noise_aware == noise_config.aware

_gate_reward(edge) ==
    IF noise_aware
    THEN edge_to_log_reliability[edge] + noise_config.added_gate_reward
    ELSE 1

\* a SWAP reward that is the flat -3 in noise-aware instances too
SwapRewardFlat(edge) == 0 - 3

_swap_reward(edge) ==
    IF noise_aware THEN 3 * edge_to_log_reliability[edge] ELSE 0 - 3

_bridge_reward(nodes) ==
    IF noise_aware
    THEN 2 * (edge_to_log_reliability[<<nodes[2], nodes[3]>>]
              + edge_to_log_reliability[<<nodes[1], nodes[2]>>])
         + noise_config.added_gate_reward
    ELSE 0 - 2

\* a scheduling reward that also pays for single-qubit gates
RECURSIVE SumAllGateRewards(_)
SumAllGateRewards(gates) ==
    IF gates = <<>> THEN 0
    ELSE _gate_reward(Head(gates)[2]) + SumAllGateRewards(Tail(gates))

RECURSIVE SumGateRewards(_)
SumGateRewards(gates) ==
    IF gates = <<>> THEN 0
    ELSE (IF Len(Head(gates)[2]) = 2 THEN _gate_reward(Head(gates)[2]) ELSE 0)
         + SumGateRewards(Tail(gates))

\* --------------------------------------------------------------- committing
\* a commit loop that puts each gate at the head of the log
RECURSIVE CommitAllPrepending(_, _)
CommitAllPrepending(st, gates) ==
    IF gates = <<>> THEN st
    ELSE LET op_node == Head(gates)[1]
             nodes == Head(gates)[2]
             logged == [st EXCEPT !.log = <<[name |-> circuit[op_node].name,
                                             qargs |-> nodes, node |-> op_node]>> \o @]
         IN  CommitAllPrepending(_remove_op_node(logged, op_node), Tail(gates))

RECURSIVE CommitAll(_, _)
CommitAll(st, gates) ==
    IF gates = <<>> THEN st
    ELSE LET op_node == Head(gates)[1]
             nodes == Head(gates)[2]
             logged == [st EXCEPT !.log = Append(@, [name |-> circuit[op_node].name,
                                                      qargs |-> nodes, node |-> op_node])]
         IN  CommitAll(_remove_op_node(logged, op_node), Tail(gates))

RECURSIVE GateNodes(_)
GateNodes(gates) ==
    IF gates = <<>> THEN {} ELSE Range(Head(gates)[2]) \cup GateNodes(Tail(gates))

\* RoutingEnv._schedule_gates, followed by LayeredRoutingEnv._schedule_gates
_schedule_gates(st, gates) ==
    [CommitAll(st, gates) EXCEPT
        !.num = Len(gates),
        !.rew = SumGateRewards(gates),
        !.smap = IF variant = "layered" THEN update_all(@, GateNodes(gates)) ELSE @]

_schedulable_gates(st, only_front_layer) ==
    IF variant = "layered"
    THEN LayeredSchedulableGates(st.dag, st.q2n, st.routed, commutation_analysis,
                                 only_front_layer, st.smap)
    ELSE BaseSchedulableGates(st.dag, st.q2n, st.routed, commutation_analysis, only_front_layer)

\* gates = self._schedulable_gates(...); self._schedule_gates(gates)
ScheduleFrom(st, only_front_layer) ==
    CHOOSE r \in {_schedule_gates(st, gates) :
                     gates \in {_schedulable_gates(st, only_front_layer)}} : TRUE

\* an _update_state whose layered branch schedules first and decrements last
UpdateStateDecrementLast(st) ==
    IF variant = "layered"
    THEN [ScheduleFrom(st, TRUE) EXCEPT !.smap = decrement(@)]
    ELSE ScheduleFrom(st, FALSE)

\* SequentialRoutingEnv._update_state / LayeredRoutingEnv._update_state
_update_state(st) ==
    IF variant = "layered"
    THEN ScheduleFrom([st EXCEPT !.smap = decrement(@)], TRUE)
    ELSE ScheduleFrom(st, FALSE)

\* terminated that never reports the end of the episode
NeverTerminated(st) == FALSE

\* RoutingEnv.terminated
terminated(st) == st.dag = {}

\* ------------------------------------------------------------ action space
num_actions ==
    IF variant = "layered" THEN num_edges + Len(bridge_pairs) + 1
    ELSE num_edges + Len(bridge_pairs)

Actions == 0 .. (num_actions - 1)

IsSwapAction(a) == a < num_edges

IsBridgeAction(a) == a >= num_edges /\ a < num_edges + Len(bridge_pairs)

IsCommitAction(a) == a >= num_edges + Len(bridge_pairs)

EdgeOf(a) == edge_list[a + 1]

PairOf(a) == bridge_pairs[a - num_edges + 1]

\* a front-layer node set that is always empty
NoFrontLayerNodes(st) == {}

\* nodes holding a qubit of some front-layer operation
FrontLayerNodes(st) ==
    UNION {Range(NodesOf(i, st.q2n)) : i \in FrontLayerSet(st.dag)}

\* action_mask that leaves every BRIDGE action enabled
MaskAllBridges(st, blocked) ==
    [a \in Actions |->
        IF IsSwapAction(a)
        THEN IF restrict_swaps_to_front_layer /\ FrontLayerNodes(st) \cap Range(EdgeOf(a)) = {}
             THEN 0
             ELSE IF blocked # NoAction /\ blocked = a THEN 0 ELSE 1
        ELSE 1]

\* action_mask that forgets the blocked SWAP
MaskIgnoringBlocked(st, blocked) ==
    [a \in Actions |->
        IF IsSwapAction(a)
        THEN IF restrict_swaps_to_front_layer /\ FrontLayerNodes(st) \cap Range(EdgeOf(a)) = {}
             THEN 0 ELSE 1
        ELSE IF _bridge_args(st, PairOf(a)) = None THEN 0 ELSE 1]

\* SequentialRoutingEnv.action_mask
SequentialMask(st, blocked) ==
    [a \in Actions |->
        IF IsSwapAction(a)
        THEN IF restrict_swaps_to_front_layer /\ FrontLayerNodes(st) \cap Range(EdgeOf(a)) = {}
             THEN 0
             ELSE IF blocked # NoAction /\ blocked = a THEN 0 ELSE 1
        ELSE IF _bridge_args(st, PairOf(a)) = None THEN 0 ELSE 1]

\* a layered mask that looks at the locks of a BRIDGE's end nodes only
LayeredMaskEndNodesOnly(st) ==
    [a \in Actions |->
        IF IsSwapAction(a)
        THEN IF DOMAIN st.smap \cap Range(EdgeOf(a)) # {} THEN 0 ELSE 1
        ELSE IF IsBridgeAction(a)
             THEN LET args == _bridge_args(st, PairOf(a))
                  IN  IF args = None THEN 0
                      ELSE IF DOMAIN st.smap \cap Range(PairOf(a)) # {} THEN 0 ELSE 1
             ELSE IF DOMAIN st.smap = {} THEN 0 ELSE 1]

\* LayeredRoutingEnv.action_mask
LayeredMask(st) ==
    [a \in Actions |->
        IF IsSwapAction(a)
        THEN IF DOMAIN st.smap \cap Range(EdgeOf(a)) # {} THEN 0 ELSE 1
        ELSE IF IsBridgeAction(a)
             THEN LET args == _bridge_args(st, PairOf(a))
                  IN  IF args = None THEN 0
                      ELSE IF DOMAIN st.smap \cap Range(args[2]) # {} THEN 0 ELSE 1
             ELSE IF DOMAIN st.smap = {} THEN 0 ELSE 1]

action_mask ==
    IF variant = "layered" THEN LayeredMask(Cur) ELSE SequentialMask(Cur, blocked_swap)

\* ------------------------------------------------------------------ calls
Store(st) ==
    /\ node_to_qubit' = st.n2q
    /\ qubit_to_node' = st.q2n
    /\ dag' = st.dag
    /\ routed_gates' = st.log
    /\ routed_op_nodes' = st.routed
    /\ scheduling_map' = st.smap
    /\ num_scheduled_2q_gates' = st.num
    /\ scheduling_reward' = st.rew

Returned(op, reward, term, raised) ==
    [op |-> op, reward |-> reward, terminated |-> term, raised |-> raised]

Identity == [n \in Nodes |-> n]

\* a placement that puts the circuit's qubits at distances 1, 2 and 3
Spread == [n \in Nodes |-> (0 :> 0 @@ 1 :> 1 @@ 2 :> 3 @@ 3 :> 4 @@ 4 :> 2)[n]]

InitialMappings == {Identity, Spread}

EmptyMap == [k \in {} |-> 0]

\* no copy() has been made
NoCopy == [made |-> FALSE]

\* attributes a noise-unaware instance never assigns
NoTable == <<>>

\* RoutingEnv.__init__ and the subclass constructors
Constructed(circuits) ==
    /\ variant \in {"sequential", "layered"}
    /\ circuit \in circuits
    /\ initial_mapping \in InitialMappings
    /\ allow_bridge_gate = TRUE
    /\ commutation_analysis \in BOOLEAN
    /\ restrict_swaps_to_front_layer = TRUE
    /\ node_to_qubit = initial_mapping
    /\ qubit_to_node = InverseOf(initial_mapping)
    /\ dag = OpNodes
    /\ routed_gates = <<>>
    /\ routed_op_nodes = {}
    /\ num_scheduled_2q_gates = 0
    /\ scheduling_reward = 0
    /\ blocked_swap = NoAction
    /\ scheduling_map = EmptyMap
    /\ call = Returned("init", 0, FALSE, FALSE)
    /\ steps = 0
    /\ visited = {}
    /\ other = NoCopy
    /\ noise_config = NoNoise
    /\ error_rates = [k \in 1 .. num_edges |-> 0]
    /\ log_reliabilities = NoTable
    /\ edge_to_log_reliability = NoTable

Init == Constructed(Circuits)

\* for node, qubit in enumerate(self.node_to_qubit): self.qubit_to_node[qubit] = node
RECURSIVE AssignInverse(_, _, _)
AssignInverse(q2n, n2q, node) ==
    IF node = num_qubits THEN q2n
    ELSE AssignInverse([q2n EXCEPT ![n2q[node]] = node], n2q, node + 1)

\* RoutingEnv.reset with _reset_state of the variant
ResetState ==
    LET fresh == [Cur EXCEPT !.dag = OpNodes, !.log = <<>>, !.routed = {},
                             !.smap = IF variant = "layered" THEN EmptyMap ELSE @,
                             !.n2q = initial_mapping,
                             !.q2n = AssignInverse(qubit_to_node, initial_mapping, 0)]
    IN  _update_state(fresh)

Reset ==
    /\ IF call.op = "init" THEN steps' = 0
       ELSE steps < MaxSteps /\ steps' = steps + 1
    /\ \E st \in {ResetState} :
          /\ Store(st)
          /\ call' = Returned("reset", 0, terminated(st), FALSE)
    /\ UNCHANGED <<config, blocked_swap, visited, other, calibration>>

\* What one call of step(action) returns and leaves behind.
Outcome(st, blocked, reward, raised) ==
    [st |-> st, blocked |-> blocked, reward |-> reward,
     terminated |-> terminated(st), raised |-> raised]

\* SequentialRoutingEnv.step
SequentialStep(st, blocked, a) ==
    IF terminated(st) THEN Outcome(st, blocked, 0, FALSE)
    ELSE LET action_is_swap == IsSwapAction(a)
             args == _bridge_args(st, PairOf(a))
             acted == IF action_is_swap THEN _swap(st, EdgeOf(a))
                      ELSE IF args # None
                           THEN _bridge(_remove_op_node(st, args[1]), args[2])
                           ELSE st
             reward == IF action_is_swap THEN _swap_reward(EdgeOf(a))
                       ELSE IF args # None THEN _bridge_reward(args[2]) ELSE 0
         IN  CHOOSE out \in
                 {Outcome(updated,
                          IF action_is_swap /\ updated.num = 0 THEN a ELSE NoAction,
                          reward + updated.rew, FALSE) :
                      updated \in {_update_state(acted)}} : TRUE

\* a layered step whose SWAP branch also runs the scheduling pass
LayeredStepSchedulingOnSwap(st, blocked, a) ==
    IF IsSwapAction(a)
    THEN CHOOSE out \in {Outcome(updated, blocked, _swap_reward(EdgeOf(a)) + updated.rew, FALSE) :
                             updated \in {_update_state(_swap(st, EdgeOf(a)))}} : TRUE
    ELSE IF IsBridgeAction(a)
         THEN LET args == _bridge_args(st, PairOf(a))
              IN  IF args = None THEN Outcome(st, blocked, 0, TRUE)
                  ELSE Outcome(_bridge(_remove_op_node(st, args[1]), args[2]),
                               blocked, _bridge_reward(args[2]), FALSE)
         ELSE CHOOSE out \in {Outcome(updated, blocked, updated.rew, FALSE) :
                                  updated \in {_update_state(st)}} : TRUE

\* LayeredRoutingEnv.step; unpacking a None candidate raises before any change
LayeredStep(st, blocked, a) ==
    IF IsSwapAction(a)
    THEN Outcome(_swap(st, EdgeOf(a)), blocked, _swap_reward(EdgeOf(a)), FALSE)
    ELSE IF IsBridgeAction(a)
         THEN LET args == _bridge_args(st, PairOf(a))
              IN  IF args = None THEN Outcome(st, blocked, 0, TRUE)
                  ELSE Outcome(_bridge(_remove_op_node(st, args[1]), args[2]),
                               blocked, _bridge_reward(args[2]), FALSE)
         ELSE CHOOSE out \in {Outcome(updated, blocked, updated.rew, FALSE) :
                                  updated \in {_update_state(st)}} : TRUE

StepResult(st, blocked, a) ==
    IF variant = "layered" THEN LayeredStep(st, blocked, a)
    ELSE SequentialStep(st, blocked, a)

CanStep(limit) == call.op # "init" /\ steps < limit

Take(a) ==
    \E out \in {StepResult(Cur, blocked_swap, a)} :
        /\ Store(out.st)
        /\ blocked_swap' = out.blocked
        /\ call' = Returned("step", out.reward, out.terminated, out.raised)
        /\ steps' = steps + 1
        /\ UNCHANGED config

SeqStepTerminated(a) ==
    /\ variant = "sequential" /\ CanStep(MaxSteps)
    /\ terminated(Cur)
    /\ Take(a)
    /\ UNCHANGED <<visited, other, calibration>>

SeqSwap(a) ==
    /\ variant = "sequential" /\ CanStep(MaxSteps)
    /\ ~terminated(Cur)
    /\ IsSwapAction(a)
    /\ Take(a)
    /\ UNCHANGED <<visited, other, calibration>>

SeqBridge(a) ==
    /\ variant = "sequential" /\ CanStep(MaxSteps)
    /\ ~terminated(Cur)
    /\ IsBridgeAction(a)
    /\ Take(a)
    /\ UNCHANGED <<visited, other, calibration>>

LaySwap(a) ==
    /\ variant = "layered" /\ CanStep(MaxSteps)
    /\ IsSwapAction(a)
    /\ Take(a)
    /\ UNCHANGED <<visited, other, calibration>>

LayBridge(a) ==
    /\ variant = "layered" /\ CanStep(MaxSteps)
    /\ IsBridgeAction(a)
    /\ Take(a)
    /\ UNCHANGED <<visited, other, calibration>>

LayCommit(a) ==
    /\ variant = "layered" /\ CanStep(MaxSteps)
    /\ IsCommitAction(a)
    /\ Take(a)
    /\ UNCHANGED <<visited, other, calibration>>

Next ==
    \/ Reset
    \/ \E a \in Actions : SeqStepTerminated(a)
    \/ \E a \in Actions : SeqSwap(a)
    \/ \E a \in Actions : SeqBridge(a)
    \/ \E a \in Actions : LaySwap(a)
    \/ \E a \in Actions : LayBridge(a)
    \/ \E a \in Actions : LayCommit(a)

Spec == Init /\ [][Next]_vars

\* An episode as the driver loop of qcp_routing.py runs it: reset, then
\* actions the mask allows until the environment reports terminated.
Snapshot ==
    <<node_to_qubit, qubit_to_node, dag, routed_op_nodes, blocked_swap, scheduling_map>>

MaskedInit == Constructed(Circuits)

FirstReset == call.op = "init" /\ Reset

MaskedStep(a) ==
    /\ CanStep(MaxEpisode)
    /\ ~terminated(Cur)
    /\ action_mask[a] = 1
    /\ Take(a)
    /\ visited' = visited \cup {Snapshot}
    /\ UNCHANGED <<other, calibration>>

MaskedNext ==
    \/ FirstReset
    \/ \E a \in Actions : MaskedStep(a)

MaskedSpec == MaskedInit /\ [][MaskedNext]_vars

\* ------------------------------------------------------------- properties
TypeOK ==
    /\ dag \subseteq OpNodes
    /\ routed_op_nodes \subseteq OpNodes

\* C2: node_to_qubit and qubit_to_node are exact mutual inverses in every
\* state reachable by reset and any sequence of SWAP/BRIDGE/COMMIT steps.
C2_MappingInverse ==
    /\ \A n \in Nodes : qubit_to_node[node_to_qubit[n]] = n
    /\ \A q \in Nodes : node_to_qubit[qubit_to_node[q]] = q

\* a step has moved the mapping away from the initial one
C2_Witness ==
    /\ call.op = "step"
    /\ node_to_qubit # initial_mapping
    /\ \E k \in 1 .. Len(routed_gates) : routed_gates[k].name = "swap"

\* ---------------------------------------------------- helpers of the claims
Inserted == {"swap", "bridge"}

\* the log entries a step appends
NewEntries == SubSeq(routed_gates', Len(routed_gates) + 1, Len(routed_gates'))

CountNamed(log, names) == Cardinality({k \in DOMAIN log : log[k].name \in names})

Count2q(log) ==
    Cardinality({k \in DOMAIN log : log[k].name \notin Inserted /\ Len(log[k].qargs) = 2})

IsStepCall == call'.op = "step"

\* C1: every two-qubit circuit gate of the routed log sits on two nodes joined
\* by a connectivity edge, every SWAP entry is on a connectivity edge and every
\* BRIDGE entry is on a triple whose control-middle and middle-target pairs
\* are connectivity edges.
C1_Connectivity ==
    \A k \in DOMAIN routed_gates :
        LET e == routed_gates[k]
        IN  /\ e.name = "swap" =>
                \E j \in DOMAIN edge_list : Range(edge_list[j]) = Range(e.qargs)
            /\ e.name = "bridge" =>
                /\ Len(e.qargs) = 3
                /\ \E j \in DOMAIN edge_list : Range(edge_list[j]) = {e.qargs[1], e.qargs[2]}
                /\ \E j \in DOMAIN edge_list : Range(edge_list[j]) = {e.qargs[2], e.qargs[3]}
            /\ (e.name \notin Inserted /\ Len(e.qargs) = 2) =>
                \E j \in DOMAIN edge_list : Range(edge_list[j]) = Range(e.qargs)

\* a log holding a SWAP, a BRIDGE and a committed two-qubit gate
C1_Witness ==
    /\ CountNamed(routed_gates, {"swap"}) > 0
    /\ CountNamed(routed_gates, {"bridge"}) > 0
    /\ Count2q(routed_gates) > 0

\* C3: a BRIDGE action whose mask value is 1 finds its candidate when it is
\* applied in that state: the step appends the BRIDGE and does not raise.
C3_MaskSound ==
    [][\A a \in Actions :
          (IsBridgeAction(a) /\ action_mask[a] = 1 /\ Take(a)) =>
              /\ ~call'.raised
              /\ Len(NewEntries) > 0
              /\ NewEntries[1].name = "bridge"]_vars

\* a step has just applied a BRIDGE
C3_Witness ==
    /\ call.op = "step"
    /\ ~call.raised
    /\ CountNamed(routed_gates, {"bridge"}) = 1
    /\ CountNamed(routed_gates, {"swap"}) = 0

\* C4 as stated: every run of mask-valid actions reaches the terminated
\* state after finitely many steps.  Were that so, no such run could come back
\* to a non-terminated state it has already been in, since the actions between
\* the two visits could then be repeated for ever.
C4_NoRevisit ==
    ~(call.op = "step" /\ dag # {} /\ Snapshot \in visited)

\* C4 as amended: a step never grows the DAG and shrinks it by exactly the
\* number of circuit gates it commits plus one for a BRIDGE it applies.
C4_DagShrinks ==
    [][IsStepCall =>
          /\ dag' \subseteq dag
          /\ Cardinality(dag) - Cardinality(dag') =
                Len(NewEntries) - CountNamed(NewEntries, {"swap"})]_vars

\* a SWAP step has just committed a two-qubit gate and left others pending
C4_Witness ==
    /\ call.op = "step"
    /\ dag # {}
    /\ Len(routed_gates) >= 2
    /\ routed_gates[Len(routed_gates) - 1].name = "swap"
    /\ routed_gates[Len(routed_gates)].name = "cx"

\* C5: in the sequential variant a step taken while the DAG is empty returns
\* reward 0 and terminated = true and leaves the mapping, the DAG, the routed
\* log, the routed set and the blocked-SWAP marker unchanged.
C5_TerminalAbsorbing ==
    [][(variant = "sequential" /\ dag = {} /\ IsStepCall) =>
          /\ call'.reward = 0
          /\ call'.terminated
          /\ UNCHANGED <<node_to_qubit, qubit_to_node, dag, routed_gates,
                         routed_op_nodes, blocked_swap>>]_vars

\* a step was taken after reset had already routed the whole circuit
C5_Witness ==
    /\ variant = "sequential"
    /\ call.op = "step"
    /\ circuit # <<>>
    /\ dag = {}
    /\ CountNamed(routed_gates, Inserted) = 0
    /\ Len(routed_gates) = Len(circuit)

\* C6: in the sequential variant a BRIDGE action without a candidate is a
\* no-op: reward 0, and the mapping, the DAG, the routed log, the routed set
\* and the resulting action mask are what they were before the step.
C6_InvalidBridgeNoOp ==
    [][\A a \in Actions :
          (/\ variant = "sequential"
           /\ dag # {}
           /\ IsBridgeAction(a)
           /\ _bridge_args(Cur, PairOf(a)) = None
           /\ Take(a)) =>
              /\ call'.reward = 0
              /\ UNCHANGED <<node_to_qubit, qubit_to_node, dag, routed_gates,
                             routed_op_nodes>>
              /\ action_mask' = action_mask]_vars

\* The result of applying the same action twice in immediate succession
TwiceResult(a) ==
    CHOOSE r \in {StepResult(first.st, first.blocked, a) :
                     first \in {StepResult(Cur, blocked_swap, a)}} : TRUE

RestoredByTwice(a) ==
    \E second \in {TwiceResult(a)} :
        /\ second.st.n2q = node_to_qubit
        /\ second.st.q2n = qubit_to_node
        /\ CountNamed(second.st.log, {"swap"}) = CountNamed(routed_gates, {"swap"}) + 2

\* C7 as stated: the same SWAP action applied twice in immediate succession,
\* in any reachable state and for every edge, restores both mapping arrays
\* and adds two SWAP entries to the routed log.
C7_DoubleSwapAlways ==
    call.op # "init" =>
        \A a \in Actions : IsSwapAction(a) => RestoredByTwice(a)

\* C7 as amended: the same holds whenever both steps apply their SWAP, which
\* in the sequential variant means that the episode is terminated neither
\* before the first step nor after it.
C7_DoubleSwap ==
    call.op # "init" =>
        \A a \in Actions :
            (/\ IsSwapAction(a)
             /\ variant = "sequential" =>
                    (dag # {} /\ StepResult(Cur, blocked_swap, a).st.dag # {})) =>
                RestoredByTwice(a)

\* two SWAPs on the same edge have just been applied back to back
C7_Witness ==
    /\ call.op = "step"
    /\ Len(routed_gates) >= 2
    /\ routed_gates[Len(routed_gates)].name = "swap"
    /\ routed_gates[Len(routed_gates) - 1] = routed_gates[Len(routed_gates)]
    /\ node_to_qubit = initial_mapping
    /\ dag # {}

\* C8: a noise-unaware sequential step returns its action reward plus its
\* scheduling reward: -3 + k for a SWAP and -2 + k for a valid BRIDGE, k being
\* the number of two-qubit circuit operations the step's pass committed.
C8_RewardDecomposition ==
    [][(variant = "sequential" /\ IsStepCall /\ Len(NewEntries) > 0) =>
          /\ NewEntries[1].name = "swap" =>
                call'.reward = Count2q(NewEntries) - 3
          /\ NewEntries[1].name = "bridge" =>
                call'.reward = Count2q(NewEntries) - 2]_vars

\* a sequential SWAP step has committed a two-qubit and a single-qubit gate
C8_Witness ==
    /\ variant = "sequential"
    /\ call.op = "step"
    /\ call.reward = 0 - 2
    /\ \E k \in DOMAIN routed_gates :
          /\ routed_gates[k].name = "swap"
          /\ \E i \in (k + 1) .. Len(routed_gates) : routed_gates[i].name = "h"
          /\ \E i \in (k + 1) .. Len(routed_gates) : routed_gates[i].name = "cx"

\* nodes holding a qubit that some front-layer operation uses
HoldsFrontLayerQubit(n) ==
    \E i \in dag :
        /\ \A j \in dag : j < i => Range(circuit[i].qargs) \cap Range(circuit[j].qargs) = {}
        /\ node_to_qubit[n] \in Range(circuit[i].qargs)

C10_FutileSwapBlocked ==
    [][\A a \in Actions :
          (/\ variant = "sequential"
           /\ dag # {}
           /\ IsSwapAction(a)
           /\ Take(a)
           /\ Count2q(NewEntries) = 0) =>
              action_mask'[a] = 0]_vars

\* C11: in the layered variant circuit gates are committed by COMMIT only: a
\* SWAP step appends exactly one SWAP entry and leaves the DAG unchanged, a
\* BRIDGE step appends exactly one BRIDGE entry and removes exactly the bridged
\* operation from the DAG, and a COMMIT step appends no SWAP or BRIDGE and
\* leaves the mapping unchanged.
C11_LayeredCommitOnly ==
    [][\A a \in Actions :
          (variant = "layered" /\ Take(a) /\ ~call'.raised) =>
              /\ IsSwapAction(a) =>
                    /\ Len(NewEntries) = 1
                    /\ NewEntries[1].name = "swap"
                    /\ NewEntries[1].qargs = edge_list[a + 1]
                    /\ dag' = dag
              /\ IsBridgeAction(a) =>
                    /\ Len(NewEntries) = 1
                    /\ NewEntries[1].name = "bridge"
                    /\ \E i \in dag :
                          /\ dag' = dag \ {i}
                          /\ circuit[i].name = "cx"
                          /\ {qubit_to_node[q] : q \in Range(circuit[i].qargs)}
                                = Range(bridge_pairs[a - num_edges + 1])
              /\ IsCommitAction(a) =>
                    /\ CountNamed(NewEntries, Inserted) = 0
                    /\ UNCHANGED <<node_to_qubit, qubit_to_node>>
                    /\ Cardinality(dag) - Cardinality(dag') = Len(NewEntries)]_vars

\* a layered COMMIT has committed a gate after a BRIDGE step
C11_Witness ==
    /\ variant = "layered"
    /\ call.op = "step"
    /\ \E j, k \in DOMAIN routed_gates :
          /\ j < k
          /\ routed_gates[j].name = "bridge"
          /\ routed_gates[k].name = "cx"

\* nodes with an entry in the scheduling map
Locked == DOMAIN scheduling_map

\* a front-layer CX whose qubits sit on the two nodes of the pair
HasCandidate(pair) ==
    \E i \in dag :
        /\ circuit[i].name = "cx"
        /\ \A j \in dag : j < i => Range(circuit[i].qargs) \cap Range(circuit[j].qargs) = {}
        /\ {qubit_to_node[q] : q \in Range(circuit[i].qargs)} = Range(pair)

\* the nodes of the two-edge paths joining the pair
PathNodes(pair) ==
    Range(pair) \cup {m \in Nodes : has_edge(pair[1], m) /\ has_edge(m, pair[2])}

\* C12: in every reachable layered state a SWAP action has mask 0 if a node of
\* its edge is locked, a BRIDGE action has mask 0 if it has no candidate or a
\* node of its path (control, middle, target) is locked, and COMMIT has mask 1
\* exactly when some node is locked.
C12_LayeredMask ==
    (variant = "layered" /\ call.op # "init") =>
        \A a \in Actions :
            /\ (IsSwapAction(a) /\ Locked \cap Range(edge_list[a + 1]) # {}) =>
                    action_mask[a] = 0
            /\ (IsBridgeAction(a) /\ ~HasCandidate(bridge_pairs[a - num_edges + 1])) =>
                    action_mask[a] = 0
            /\ (IsBridgeAction(a) /\ Locked \cap PathNodes(bridge_pairs[a - num_edges + 1]) # {}) =>
                    action_mask[a] = 0
            /\ IsCommitAction(a) => (action_mask[a] = 1 <=> Locked # {})

\* a BRIDGE with a candidate is masked out only because its middle node is locked
C12_Witness ==
    /\ variant = "layered"
    /\ call.op = "step"
    /\ \E a \in Actions :
          /\ IsBridgeAction(a)
          /\ HasCandidate(bridge_pairs[a - num_edges + 1])
          /\ Locked \cap Range(bridge_pairs[a - num_edges + 1]) = {}
          /\ Locked # {}
          /\ action_mask[a] = 0

\* ------------------------------------------------------------------ copy()
\* RoutingEnv.copy / LayeredRoutingEnv.copy: copy.copy(self) followed by copies
\* of node_to_qubit, qubit_to_node, dag, routed_gates and (layered)
\* scheduling_map.  routed_op_nodes is not reassigned, so both instances keep
\* referring to the one set object.
CopyOf(st, blocked) ==
    [made |-> TRUE, n2q |-> st.n2q, q2n |-> st.q2n, dag |-> st.dag, log |-> st.log,
     smap |-> st.smap, num |-> st.num, rew |-> st.rew, blocked |-> blocked]

\* the attributes of the copied instance, its routed set being the shared one
OtherCur ==
    [n2q |-> other.n2q, q2n |-> other.q2n, dag |-> other.dag, log |-> other.log,
     routed |-> routed_op_nodes, smap |-> other.smap, num |-> other.num,
     rew |-> other.rew]

CopyInit == Constructed(Circuits) /\ ~commutation_analysis

\* a step of the original before the copy is made
StepBeforeCopy(a) ==
    /\ ~other.made
    /\ CanStep(1)
    /\ Take(a)
    /\ UNCHANGED <<visited, other, calibration>>

\* env2 = env.copy()
Copy ==
    /\ call.op # "init"
    /\ ~other.made
    /\ other' = CopyOf(Cur, blocked_swap)
    /\ call' = Returned("copy", 0, terminated(Cur), FALSE)
    /\ steps' = 0
    /\ UNCHANGED <<config, node_to_qubit, qubit_to_node, dag, routed_gates,
                   routed_op_nodes, num_scheduled_2q_gates, scheduling_reward,
                   blocked_swap, scheduling_map, visited, calibration>>

\* env.step(a) once the copy exists
StepOriginal(a) ==
    /\ other.made
    /\ steps < MaxCopySteps
    /\ Take(a)
    /\ UNCHANGED <<visited, other, calibration>>

\* env2.step(a)
StepCopy(a) ==
    /\ other.made
    /\ steps < MaxCopySteps
    /\ \E out \in {StepResult(OtherCur, other.blocked, a)} :
          /\ other' = CopyOf(out.st, out.blocked)
          /\ routed_op_nodes' = out.st.routed
          /\ call' = Returned("step2", out.reward, out.terminated, out.raised)
    /\ steps' = steps + 1
    /\ UNCHANGED <<config, node_to_qubit, qubit_to_node, dag, routed_gates,
                   num_scheduled_2q_gates, scheduling_reward, blocked_swap,
                   scheduling_map, visited, calibration>>

CopyNext ==
    \/ FirstReset
    \/ \E a \in Actions : StepBeforeCopy(a)
    \/ Copy
    \/ \E a \in Actions : StepOriginal(a)
    \/ \E a \in Actions : StepCopy(a)

CopySpec == CopyInit /\ [][CopyNext]_vars

\* C13: after env2 = env.copy() a step applied to env2 changes none of env's
\* mapping arrays, DAG, routed log, routed-operation set and lock map, and a
\* step applied to env changes none of env2's.
C13_CopyIndependent ==
    [][(other.made /\ other'.made) =>
          /\ call'.op = "step2" =>
                UNCHANGED <<node_to_qubit, qubit_to_node, dag, routed_gates,
                            routed_op_nodes, scheduling_map>>
          /\ call'.op = "step" => OtherCur' = OtherCur]_vars

\* ----------------------------------------------- construction, calibration
\* Error rates and log-reliabilities are counted in whole units.
\* NoiseConfig.calculate_log_reliabilities: a monotonic transform of the
\* reliability 1 - e that maps e = 0 to 0 and is bounded below by the
\* configured minimum.
calculate_log_reliabilities(cfg, rates) ==
    [k \in DOMAIN rates |->
        IF 0 - rates[k] < cfg.min_log_reliability
        THEN cfg.min_log_reliability ELSE 0 - rates[k]]

AddedGateRewards == {0 - 2, 2}

NoiseConfigs ==
    {[aware |-> TRUE, added_gate_reward |-> g, min_log_reliability |-> 0 - MaxRate] :
        g \in AddedGateRewards}

\* for edge, value in zip(self.edge_list, self.log_reliabilities): both
\* orientations of the edge get the value; zip stops at the shorter sequence
EdgeTable(values) ==
    LET n == IF Len(values) < num_edges THEN Len(values) ELSE num_edges
        keys == UNION {{edge_list[k], <<edge_list[k][2], edge_list[k][1]>>} : k \in 1 .. n}
    IN  [e \in keys |->
            values[CHOOSE k \in 1 .. n : Range(edge_list[k]) = Range(e)]]

\* RoutingEnv.calibrate: what it stores
calibrate(cfg, rates) ==
    IF cfg.aware
    THEN [error_rates |-> rates,
          log_reliabilities |-> calculate_log_reliabilities(cfg, rates),
          edge_to_log_reliability |-> EdgeTable(calculate_log_reliabilities(cfg, rates))]
    ELSE [error_rates |-> rates,
          log_reliabilities |-> log_reliabilities,
          edge_to_log_reliability |-> edge_to_log_reliability]

\* error-rate arrays handed to the constructor and to calibrate
RateArrays ==
    {[k \in 1 .. n |-> r] : n \in (num_edges - 1) .. (num_edges + 1), r \in 0 .. MaxRate}
    \cup {[k \in 1 .. n |-> k % (MaxRate + 1)] : n \in (num_edges - 1) .. (num_edges + 1)}

\* initial mappings handed to the constructor, two of them of a wrong length
MappingArrays ==
    InitialMappings \cup {[n \in 0 .. (num_qubits - 2) |-> n], [n \in 0 .. num_qubits |-> n]}

CalibCircuits == {c \in Circuits : Len(c) <= 1}

\* a constructor that validates nothing
ShapesNotChecked(mapping, rates) == TRUE

\* the shape checks of RoutingEnv.__init__
ValidShapes(mapping, rates) ==
    /\ Cardinality(DOMAIN mapping) = num_qubits
    /\ Len(rates) = num_edges

\* Before the constructor has run there is no instance: the attributes hold
\* placeholders and call.op is "none".
Unbuilt ==
    /\ variant \in {"sequential", "layered"}
    /\ circuit = <<>>
    /\ initial_mapping = <<>>
    /\ allow_bridge_gate = FALSE
    /\ commutation_analysis = FALSE
    /\ restrict_swaps_to_front_layer = FALSE
    /\ node_to_qubit = <<>>
    /\ qubit_to_node = <<>>
    /\ dag = {}
    /\ routed_gates = <<>>
    /\ routed_op_nodes = {}
    /\ num_scheduled_2q_gates = 0
    /\ scheduling_reward = 0
    /\ blocked_swap = NoAction
    /\ scheduling_map = EmptyMap
    /\ call = Returned("none", 0, FALSE, FALSE)
    /\ steps = 0
    /\ visited = {}
    /\ other = NoCopy
    /\ noise_config = NoNoise
    /\ error_rates = <<>>
    /\ log_reliabilities = NoTable
    /\ edge_to_log_reliability = NoTable

\* qubit_to_node as the constructor's loop fills it
CtorInverse(mapping) ==
    [q \in DOMAIN mapping |->
        IF \E n \in DOMAIN mapping : mapping[n] = q
        THEN CHOOSE n \in DOMAIN mapping : mapping[n] = q ELSE 0]

\* RoutingEnv.__init__ called with the given arguments
Construct(circ, mapping, rates, cfg, comm) ==
    /\ call.op = "none"
    /\ IF ~ValidShapes(mapping, rates)
       THEN /\ call' = Returned("init", 0, FALSE, TRUE)
            /\ UNCHANGED <<config, node_to_qubit, qubit_to_node, dag, routed_gates,
                           routed_op_nodes, num_scheduled_2q_gates, scheduling_reward,
                           blocked_swap, scheduling_map, steps, visited, other,
                           calibration>>
       ELSE /\ circuit' = circ
            /\ initial_mapping' = mapping
            /\ allow_bridge_gate' = TRUE
            /\ commutation_analysis' = comm
            /\ restrict_swaps_to_front_layer' = TRUE
            /\ noise_config' = cfg
            /\ node_to_qubit' = mapping
            /\ qubit_to_node' = CtorInverse(mapping)
            /\ dag' = 1 .. Len(circ)
            /\ routed_gates' = <<>>
            /\ routed_op_nodes' = {}
            /\ \E c \in {calibrate(cfg, rates)} :
                  /\ error_rates' = c.error_rates
                  /\ log_reliabilities' = c.log_reliabilities
                  /\ edge_to_log_reliability' = c.edge_to_log_reliability
            /\ num_scheduled_2q_gates' = 0
            /\ scheduling_reward' = 0
            /\ blocked_swap' = NoAction
            /\ scheduling_map' = EmptyMap
            /\ call' = Returned("init", 0, FALSE, FALSE)
            /\ UNCHANGED <<variant, steps, visited, other>>

CalibReset == call.op = "init" /\ ~call.raised /\ Reset

\* every edge has its entry in edge_to_log_reliability
TableComplete ==
    \A k \in 1 .. num_edges : edge_list[k] \in DOMAIN edge_to_log_reliability

\* env.calibrate(rates)
Calibrate(rates) ==
    /\ call.op \notin {"none", "init"}
    /\ steps < MaxCalibCalls
    /\ \E c \in {calibrate(noise_config, rates)} :
          /\ error_rates' = c.error_rates
          /\ log_reliabilities' = c.log_reliabilities
          /\ edge_to_log_reliability' = c.edge_to_log_reliability
    /\ call' = Returned("calibrate", 0, terminated(Cur), FALSE)
    /\ steps' = steps + 1
    /\ UNCHANGED <<config, noise_config, node_to_qubit, qubit_to_node, dag, routed_gates,
                   routed_op_nodes, num_scheduled_2q_gates, scheduling_reward,
                   blocked_swap, scheduling_map, visited, other>>

\* a step of a calibrated instance; with an entry missing from the table the
\* reward lookup of the step raises KeyError, and such runs are not followed
CalibStep(a) ==
    /\ call.op \notin {"none", "init"}
    /\ steps < MaxCalibCalls
    /\ noise_aware => TableComplete
    /\ Take(a)
    /\ UNCHANGED <<visited, other, calibration>>

CalibNext ==
    \/ \E circ \in CalibCircuits, mapping \in MappingArrays, rates \in RateArrays,
          cfg \in NoiseConfigs \cup {NoNoise}, comm \in BOOLEAN :
              Construct(circ, mapping, rates, cfg, comm)
    \/ CalibReset
    \/ \E rates \in RateArrays : Calibrate(rates)
    \/ \E a \in Actions : CalibStep(a)

CalibSpec == Unbuilt /\ [][CalibNext]_vars

\* C14: calibrate(rates) rejects an array whose length differs from the number
\* of edges and leaves the stored error rates and log-reliabilities unchanged.
C14_CalibrateRejects ==
    [][\A rates \in RateArrays :
          (Calibrate(rates) /\ Len(rates) # num_edges) =>
              /\ call'.raised
              /\ UNCHANGED <<error_rates, log_reliabilities, edge_to_log_reliability>>]_vars

\* C15: a constructor call with an initial mapping whose length is not the
\* node count, or an error-rate array whose length is not the edge count,
\* raises and initialises no attribute of the instance: every constructor
\* call either raises and leaves every attribute unset, or stores a mapping
\* and error rates (its arguments) of the right lengths.
C15_ConstructionValidated ==
    [][call.op = "none" =>
          \/ /\ ~call'.raised
             /\ Cardinality(DOMAIN initial_mapping') = num_qubits
             /\ Len(error_rates') = num_edges
          \/ /\ call'.raised
             /\ UNCHANGED <<config, node_to_qubit, qubit_to_node, dag, routed_gates,
                            routed_op_nodes, num_scheduled_2q_gates, scheduling_reward,
                            blocked_swap, scheduling_map, calibration>>]_vars

\* a constructor call has raised
C15_Witness ==
    /\ call.op = "init"
    /\ call.raised
    /\ node_to_qubit = <<>>

\* every edge has log-reliability 0 in a noise-aware instance
ZeroLogReliabilities ==
    /\ noise_aware
    /\ TableComplete
    /\ \A e \in DOMAIN edge_to_log_reliability : edge_to_log_reliability[e] = 0

BridgePaths == {shortest_paths[bridge_pairs[k][1]][bridge_pairs[k][2]] : k \in DOMAIN bridge_pairs}

Coefficients == {0 - 2, 0 - 1, 1, 2}

\* C18 as stated: with log-reliability 0 on every edge the noise-aware gate,
\* SWAP and BRIDGE rewards are the noise-unaware constants +1, -3 and -2, each
\* scaled by a configured (non-zero) coefficient.
C18_ReducesToConstants ==
    ZeroLogReliabilities =>
        \E cg \in Coefficients, cs \in Coefficients, cb \in Coefficients :
            /\ \A k \in 1 .. num_edges :
                  /\ _gate_reward(edge_list[k]) = cg * 1
                  /\ _swap_reward(edge_list[k]) = cs * (0 - 3)
            /\ \A nodes \in BridgePaths : _bridge_reward(nodes) = cb * (0 - 2)

\* C18 as amended: with log-reliability 0 on every edge the noise-aware gate
\* reward and BRIDGE reward are the added-gate constant and the SWAP reward
\* is 0.
C18_ZeroRatesRewards ==
    ZeroLogReliabilities =>
        /\ \A k \in 1 .. num_edges :
              /\ _gate_reward(edge_list[k]) = noise_config.added_gate_reward
              /\ _swap_reward(edge_list[k]) = 0
        /\ \A nodes \in BridgePaths : _bridge_reward(nodes) = noise_config.added_gate_reward

\* a noise-aware SWAP step, all log-reliabilities 0, has committed a
\* two-qubit gate and returned the added-gate constant alone
C18_Witness ==
    /\ ZeroLogReliabilities
    /\ variant = "sequential"
    /\ call.op = "step"
    /\ Len(routed_gates) = 2
    /\ routed_gates[1].name = "swap"
    /\ routed_gates[2].name = "cx"
    /\ call.reward = noise_config.added_gate_reward

\* the circuit is a single CX
SingleCX == Len(circuit) = 1 /\ circuit[1].name = "cx"

\* C16: on the T topology, sequential variant, with a circuit of one CX whose
\* qubits sit on nodes at distance exactly 2: after reset the BRIDGE action of
\* that node pair is mask-valid and every other BRIDGE action is mask-invalid,
\* and some mask-valid SWAP terminates the episode in one step, the routed log
\* being exactly that SWAP followed by the original gate.
C16_TScenario ==
    (/\ variant = "sequential"
     /\ call.op = "reset"
     /\ SingleCX
     /\ distance_matrix[qubit_to_node[circuit[1].qargs[1]]][qubit_to_node[circuit[1].qargs[2]]] = 2) =>
        LET ends == {qubit_to_node[circuit[1].qargs[1]], qubit_to_node[circuit[1].qargs[2]]}
        IN  /\ \A a \in Actions :
                  IsBridgeAction(a) =>
                      (action_mask[a] = 1 <=> Range(bridge_pairs[a - num_edges + 1]) = ends)
            /\ \E a \in Actions : IsBridgeAction(a) /\ action_mask[a] = 1
            /\ \E a \in Actions :
                  /\ IsSwapAction(a)
                  /\ action_mask[a] = 1
                  /\ \E out \in {StepResult(Cur, blocked_swap, a)} :
                        /\ out.terminated
                        /\ out.st.dag = {}
                        /\ Len(out.st.log) = 2
                        /\ out.st.log[1].name = "swap"
                        /\ out.st.log[1].qargs = edge_list[a + 1]
                        /\ out.st.log[2].name = "cx"
                        /\ out.st.log[2].node = 1
                        /\ has_edge(out.st.log[2].qargs[1], out.st.log[2].qargs[2])

\* the single SWAP step of the scenario has been taken
C16_Witness ==
    /\ variant = "sequential"
    /\ SingleCX
    /\ distance_matrix[InverseOf(initial_mapping)[circuit[1].qargs[1]]]
                      [InverseOf(initial_mapping)[circuit[1].qargs[2]]] = 2
    /\ call.op = "step"
    /\ call.terminated
    /\ Len(routed_gates) = 2
    /\ routed_gates[1].name = "swap"
    /\ routed_gates[2].name = "cx"

\* C17: between two resets the DAG only shrinks: a step adds no operation
\* back to the DAG, every operation that has left the DAG is in the routed set
\* and stays there, and once terminated is true it is true after every later
\* step, in both variants.
C17_DagOnlyShrinks ==
    [][IsStepCall =>
          /\ dag' \subseteq dag
          /\ routed_op_nodes \subseteq routed_op_nodes'
          /\ (OpNodes \ dag') \subseteq routed_op_nodes'
          /\ dag = {} => (dag' = {} /\ call'.terminated)]_vars

\* a layered SWAP step was taken in a terminated episode
C17_Witness ==
    /\ variant = "layered"
    /\ call.op = "step"
    /\ call.terminated
    /\ circuit # <<>>
    /\ routed_op_nodes = OpNodes
    /\ routed_gates[Len(routed_gates)].name = "swap"

\* operations of the DAG with no predecessor left in it
PendingFront ==
    {i \in dag : \A j \in dag : j < i => Range(circuit[i].qargs) \cap Range(circuit[j].qargs) = {}}

\* C19: in the sequential variant no executable gate is left pending: after
\* reset and after every step the DAG front layer holds no single-qubit
\* operation and no two-qubit operation whose qubits sit on adjacent nodes.
C19_NothingExecutablePending ==
    (variant = "sequential" /\ call.op \in {"reset", "step"}) =>
        \A i \in PendingFront :
            /\ Len(circuit[i].qargs) = 2
            /\ ~has_edge(qubit_to_node[circuit[i].qargs[1]], qubit_to_node[circuit[i].qargs[2]])

\* the circuit operations committed by the scheduling pass of a reset or step
PassEntries ==
    SelectSeq(IF call'.op = "reset" THEN routed_gates' ELSE NewEntries,
              LAMBDA e : e.name \notin Inserted)

\* C20: the operations returned by one scheduling pass claim their nodes, so
\* no two operations committed by the pass of one reset or step are on a
\* common physical node.
C20_PassNodesDisjoint ==
    [][call'.op \in {"reset", "step"} =>
          \A i, j \in DOMAIN PassEntries :
              i < j => Range(PassEntries[i].qargs) \cap Range(PassEntries[j].qargs) = {}]_vars

\* a predecessor B of the k-th operation committed by the pass that is not
\* yet committed when that operation is: it stays in the DAG or is committed
\* later in the same pass
UncommittedPredecessors(k) ==
    {B \in OpNodes :
        /\ B < PassEntries[k].node
        /\ SharesQubit(B, PassEntries[k].node)
        /\ \/ B \in dag'
           \/ \E m \in DOMAIN PassEntries : m > k /\ PassEntries[m].node = B}

\* C21: with commutation analysis enabled, an operation committed ahead of a
\* still-uncommitted DAG predecessor commutes with it: the two belong to the
\* same commutation group on every qubit they share.
C21_JumpsOnlyOverCommuting ==
    [][(commutation_analysis /\ call'.op \in {"reset", "step"}) =>
          \A k \in DOMAIN PassEntries :
              \A B \in UncommittedPredecessors(k) :
                  \A q \in Range(Qargs(B)) \cap Range(Qargs(PassEntries[k].node)) :
                      PassEntries[k].node \in Range(CommutingGroup(B, q))]_vars

\* C22: with commutation analysis disabled the routed log is a linear
\* extension of the circuit's dependency order: when an operation is
\* committed, every predecessor of it has been committed earlier or replaced
\* by a BRIDGE, in both variants and on every reset and step.
C22_LinearExtension ==
    [][(~commutation_analysis /\ call'.op \in {"reset", "step"}) =>
          \A k \in DOMAIN PassEntries : UncommittedPredecessors(k) = {}]_vars

\* a step without commutation analysis has committed an operation whose
\* predecessor was committed by an earlier call, with a SWAP in between
C22_Witness ==
    /\ ~commutation_analysis
    /\ call.op = "step"
    /\ \E p, s, r \in DOMAIN routed_gates :
          /\ p < s /\ s < r
          /\ routed_gates[s].name = "swap"
          /\ routed_gates[p].name \notin Inserted
          /\ routed_gates[r].name \notin Inserted
          /\ routed_gates[p].node < routed_gates[r].node
          /\ SharesQubit(routed_gates[p].node, routed_gates[r].node)

\* how many circuit-gate entries of the log record operation i
TimesLogged(i) ==
    Cardinality({k \in DOMAIN routed_gates :
                    routed_gates[k].name \notin Inserted /\ routed_gates[k].node = i})

\* C23: every operation of the circuit is in exactly one place: still in the
\* DAG, or recorded exactly once in the routed log, or replaced by exactly one
\* BRIDGE entry; none is committed twice, none is lost, and at termination the
\* circuit-gate entries plus the BRIDGE entries number the circuit's operations.
C23_Conservation ==
    /\ \A i \in dag : TimesLogged(i) = 0
    /\ \A i \in OpNodes \ dag : TimesLogged(i) <= 1
    /\ \A i \in OpNodes \ dag : TimesLogged(i) = 0 => circuit[i].name = "cx"
    /\ CountNamed(routed_gates, {"bridge"})
          = Cardinality({i \in OpNodes \ dag : TimesLogged(i) = 0})
    /\ Cardinality(dag) + CountNamed(routed_gates, GateNames) + CountNamed(routed_gates, {"bridge"})
          = Len(circuit)

\* a terminated episode whose log holds a BRIDGE and two committed circuit
\* gates, one of them committed by a step
C23_Witness ==
    /\ call.op = "step" /\ call.terminated
    /\ Len(circuit) = 3
    /\ CountNamed(routed_gates, {"bridge"}) = 1
    /\ CountNamed(routed_gates, GateNames) = 2
    /\ commutation_analysis

\* the transition is a layered COMMIT step: a layered step that did not raise
\* and appended neither a SWAP nor a BRIDGE
IsCommitStep ==
    /\ variant = "layered"
    /\ call'.op = "step"
    /\ ~call'.raised
    /\ CountNamed(NewEntries, Inserted) = 0

\* nodes touched by the gates the step committed
CommittedNodes == UNION {Range(NewEntries[k].qargs) : k \in DOMAIN NewEntries}

\* C24: a layered COMMIT first decrements every lock and drops those reaching
\* zero, then schedules from the front layer, then locks the nodes of the
\* gates it committed: after it a node is locked exactly when its lock count
\* before exceeded 1 or a gate committed by this COMMIT touches it. The gates
\* it commits avoid the nodes whose lock survives the decrement, and without
\* commutation analysis they all come from the front layer.
C24_CommitOrdering ==
    [][IsCommitStep =>
          /\ DOMAIN scheduling_map'
                = {n \in DOMAIN scheduling_map : scheduling_map[n] > 1} \cup CommittedNodes
          /\ \A n \in CommittedNodes : scheduling_map'[n] = 1
          /\ \A n \in DOMAIN scheduling_map :
                (scheduling_map[n] > 1 /\ n \notin CommittedNodes)
                    => scheduling_map'[n] = scheduling_map[n] - 1
          /\ CommittedNodes \cap {n \in DOMAIN scheduling_map : scheduling_map[n] > 1} = {}
          /\ ~commutation_analysis =>
                \A k \in DOMAIN NewEntries : NewEntries[k].node \in FrontLayerSet(dag)]_vars

\* a COMMIT has committed a gate on a node that was locked when it was taken
C24_Witness ==
    /\ variant = "layered"
    /\ call.op = "step"
    /\ Len(routed_gates) >= 2
    /\ routed_gates[Len(routed_gates) - 1].name = "swap"
    /\ routed_gates[Len(routed_gates)].name = "cx"
    /\ Range(routed_gates[Len(routed_gates)].qargs)
          \cap Range(routed_gates[Len(routed_gates) - 1].qargs) # {}
    /\ DOMAIN scheduling_map = Range(routed_gates[Len(routed_gates)].qargs)

\* scheduling_map.get(q, 0)
LockCount(n) == IF n \in DOMAIN scheduling_map THEN scheduling_map[n] ELSE 0

\* LockedEdges.obs: per edge the larger lock count of its two nodes
LockedEdgesObs ==
    [k \in 1 .. num_edges |->
        IF LockCount(edge_list[k][1]) >= LockCount(edge_list[k][2])
        THEN LockCount(edge_list[k][1]) ELSE LockCount(edge_list[k][2])]

\* C25: in the layered variant every entry of the scheduling-lock map has a
\* value of at least 1 and at most 1, so the locked-edges observation lies
\* within its declared bounds [0, 1].
C25_LockBounds ==
    variant = "layered" =>
        /\ \A n \in DOMAIN scheduling_map : scheduling_map[n] >= 1 /\ scheduling_map[n] <= 1
        /\ \A k \in 1 .. num_edges : LockedEdgesObs[k] \in {0, 1}

\* a COMMIT has released the locks of a SWAP: the edge of the last logged
\* SWAP reads 0 in the observation while another edge reads 1
C25_Witness ==
    /\ variant = "layered"
    /\ call.op = "step"
    /\ \E k \in 1 .. num_edges :
          /\ LockedEdgesObs[k] = 0
          /\ Len(routed_gates) >= 2
          /\ routed_gates[Len(routed_gates) - 1].name = "swap"
          /\ routed_gates[Len(routed_gates) - 1].qargs = edge_list[k]
    /\ \E k \in 1 .. num_edges : LockedEdgesObs[k] = 1

\* the transition is a layered SWAP or BRIDGE step: it appended one SWAP or
\* BRIDGE entry
IsInsertStep ==
    /\ variant = "layered"
    /\ call'.op = "step"
    /\ CountNamed(NewEntries, Inserted) = 1

\* C26: in a layered run of mask-valid actions, between two consecutive
\* COMMIT steps no node is touched by more than one SWAP/BRIDGE and none of
\* them touches a node used by a gate of the preceding COMMIT or of reset.
\* Stated through the lock map, which carries that history: reset and COMMIT
\* leave the nodes of the gates they committed locked; a SWAP/BRIDGE step
\* touches only nodes that are not locked, locks the nodes it touches and
\* releases none.
C26_ParallelLayerDisjoint ==
    [][variant = "layered" =>
          /\ (call'.op = "reset" \/ IsCommitStep) =>
                UNION {Range(PassEntries[k].qargs) : k \in DOMAIN PassEntries}
                    \subseteq DOMAIN scheduling_map'
          /\ IsInsertStep =>
                /\ Len(NewEntries) = 1
                /\ Range(NewEntries[1].qargs) \cap DOMAIN scheduling_map = {}
                /\ DOMAIN scheduling_map'
                      = DOMAIN scheduling_map \cup Range(NewEntries[1].qargs)]_vars

\* a SWAP and a BRIDGE issued in the same layer of a mask-valid run, together
\* covering all five nodes
C26_Witness ==
    /\ variant = "layered"
    /\ call.op = "step"
    /\ Len(routed_gates) >= 2
    /\ {routed_gates[Len(routed_gates) - 1].name, routed_gates[Len(routed_gates)].name}
          = Inserted
    /\ Range(routed_gates[Len(routed_gates) - 1].qargs)
          \cap Range(routed_gates[Len(routed_gates)].qargs) = {}
    /\ DOMAIN scheduling_map = Nodes

\* operations the step removed from the DAG without logging them as gates
RemovedUnlogged ==
    (dag \ dag') \ {NewEntries[k].node : k \in DOMAIN NewEntries}

\* C27: a valid BRIDGE step, in either variant, leaves node_to_qubit and
\* qubit_to_node unchanged and takes out of the DAG, unlogged, exactly the
\* front-layer CX whose two qubits sit on the selected node pair; a SWAP step
\* changes the mapping only at the two nodes of its edge and the two qubits
\* they hold.
C27_BridgeSwapFrame ==
    [][\A a \in Actions :
          Take(a) =>
              /\ (IsBridgeAction(a) /\ action_mask[a] = 1) =>
                    /\ UNCHANGED <<node_to_qubit, qubit_to_node>>
                    /\ CountNamed(NewEntries, {"bridge"}) = 1
                    /\ \E i \in FrontLayerSet(dag) :
                          /\ circuit[i].name = "cx"
                          /\ SortedPair(<<qubit_to_node[Qargs(i)[1]], qubit_to_node[Qargs(i)[2]]>>)
                                = PairOf(a)
                          /\ RemovedUnlogged = {i}
              /\ IsSwapAction(a) =>
                    /\ \A n \in Nodes \ Range(EdgeOf(a)) : node_to_qubit'[n] = node_to_qubit[n]
                    /\ \A q \in Nodes \ {node_to_qubit[EdgeOf(a)[1]], node_to_qubit[EdgeOf(a)[2]]} :
                          qubit_to_node'[q] = qubit_to_node[q]
                    /\ RemovedUnlogged = {}]_vars

\* a sequential BRIDGE step whose pass then committed a successor of the
\* bridged gate, after an earlier SWAP had moved the mapping
C27_Witness ==
    /\ variant = "sequential"
    /\ call.op = "step"
    /\ node_to_qubit # initial_mapping
    /\ Len(routed_gates) >= 3
    /\ routed_gates[Len(routed_gates) - 1].name = "bridge"
    /\ routed_gates[Len(routed_gates)].name \in GateNames
    /\ \E k \in 1 .. (Len(routed_gates) - 2) : routed_gates[k].name = "swap"

\* the step of action a appended a SWAP entry
SwapLogged(a) ==
    /\ IsSwapAction(a)
    /\ Take(a)
    /\ Len(NewEntries) >= 1
    /\ NewEntries[1].name = "swap"

\* C28 as stated: the operands of the logged SWAP are the logical qubits that
\* node_to_qubit assigns to the edge's two nodes at the moment of the swap.
C28_SwapLogsMappedQubits ==
    [][\A a \in Actions :
          SwapLogged(a) =>
              Range(NewEntries[1].qargs)
                  = {node_to_qubit[EdgeOf(a)[1]], node_to_qubit[EdgeOf(a)[2]]}]_vars

\* C28: the operands of the logged SWAP are the circuit qubits whose indices
\* are the two nodes of the edge, in the edge's order, whatever node_to_qubit
\* holds there when the swap is made.
C28_SwapLogsEdgeNodes ==
    [][\A a \in Actions :
          SwapLogged(a) =>
              /\ NewEntries[1].qargs = EdgeOf(a)
              /\ CountNamed(NewEntries, {"swap"}) = 1]_vars

\* a step has logged a SWAP on an edge whose nodes hold other qubits than the
\* ones carrying the nodes' own indices
C28_Witness ==
    /\ call.op = "step"
    /\ \E k \in DOMAIN routed_gates :
          /\ routed_gates[k].name = "swap"
          /\ \A m \in DOMAIN routed_gates : m > k => routed_gates[m].name \notin Inserted
          /\ {node_to_qubit[n] : n \in Range(routed_gates[k].qargs)}
                \cap Range(routed_gates[k].qargs) = {}

\* the transition ran a scheduling pass: a reset, a sequential step of an
\* episode that was not terminated, or a layered COMMIT
RanPass ==
    \/ call'.op = "reset"
    \/ variant = "sequential" /\ call'.op = "step" /\ dag # {}
    \/ IsCommitStep

\* the summed gate reward of the two-qubit entries of a batch
RECURSIVE TwoQubitRewards(_)
TwoQubitRewards(entries) ==
    IF entries = <<>> THEN 0
    ELSE (IF Len(Head(entries).qargs) = 2 THEN _gate_reward(Head(entries).qargs) ELSE 0)
         + TwoQubitRewards(Tail(entries))

\* C29: after every commit of a batch the recorded scheduled-gate count is
\* the number of two-qubit operations of the batch (single-qubit operations
\* are not counted) and the recorded scheduling reward is the sum of the gate
\* rewards of exactly those two-qubit operations.
C29_ScheduledCount ==
    [][RanPass =>
          /\ num_scheduled_2q_gates' = Count2q(PassEntries)
          /\ scheduling_reward' = TwoQubitRewards(PassEntries)]_vars

\* C30: no deadlock: in every reachable state of either variant that is not
\* terminated at least one action has mask value 1.
C30_NoDeadlock ==
    (call.op \in {"reset", "step"} /\ ~terminated(Cur)) =>
        \E a \in Actions : action_mask[a] = 1

\* a sequential episode that is not terminated, with a blocked SWAP in force,
\* in which a single action is left with mask value 1
C30_Witness ==
    /\ variant = "sequential"
    /\ call.op = "step"
    /\ ~terminated(Cur)
    /\ blocked_swap # NoAction
    /\ action_mask[blocked_swap] = 0
    /\ Cardinality({a \in Actions : action_mask[a] = 1}) = 1

\* the state reset leaves behind on a newly constructed instance
FirstEpisodeState ==
    _update_state([n2q |-> initial_mapping, q2n |-> InverseOf(initial_mapping),
                   dag |-> OpNodes, log |-> <<>>, routed |-> {}, smap |-> EmptyMap,
                   num |-> 0, rew |-> 0])

\* the action mask of the first state of the first episode
FirstEpisodeMask ==
    IF variant = "layered" THEN LayeredMask(FirstEpisodeState)
    ELSE SequentialMask(FirstEpisodeState, NoAction)

\* C31: reset is history-independent: the mapping, DAG, routed log, routed
\* set and locks after reset, and the action mask of that state, are those of
\* the first episode whatever steps preceded the reset; no SWAP is masked as
\* blocked in the first state of a new episode.
C31_ResetHistoryIndependent ==
    call.op = "reset" =>
        /\ node_to_qubit = FirstEpisodeState.n2q
        /\ qubit_to_node = FirstEpisodeState.q2n
        /\ dag = FirstEpisodeState.dag
        /\ routed_gates = FirstEpisodeState.log
        /\ routed_op_nodes = FirstEpisodeState.routed
        /\ scheduling_map = FirstEpisodeState.smap
        /\ action_mask = FirstEpisodeMask

\* C32: the routed log is append-only within an episode and in commit order:
\* on every step the log before the step is a prefix of the log after it, and
\* within one sequential step the inserted SWAP or BRIDGE entry comes before
\* every gate committed by the scheduling pass of that step.
C32_AppendOnlyLog ==
    [][IsStepCall =>
          /\ Len(routed_gates') >= Len(routed_gates)
          /\ SubSeq(routed_gates', 1, Len(routed_gates)) = routed_gates
          /\ variant = "sequential" =>
                \A k \in DOMAIN NewEntries : NewEntries[k].name \in Inserted => k = 1]_vars

\* a sequential SWAP step has added the SWAP and then a gate of its pass to a
\* log that already held a gate committed by reset
C32_Witness ==
    /\ variant = "sequential"
    /\ call.op = "step"
    /\ Len(routed_gates) = 3
    /\ routed_gates[1].name \in GateNames
    /\ routed_gates[2].name = "swap"
    /\ routed_gates[3].name \in GateNames

\* the result of running the sequential scheduling-and-commit pass once more
\* on the current state
SecondPass == _update_state(Cur)

\* C33: scheduling is quiescent in the sequential variant: a second pass run
\* right after the pass of a reset or step, with no SWAP or BRIDGE in
\* between, commits no operation and yields scheduling reward 0.
C33_Quiescent ==
    (variant = "sequential" /\ call.op \in {"reset", "step"}) =>
        /\ SecondPass.log = routed_gates
        /\ SecondPass.dag = dag
        /\ SecondPass.rew = 0

\* ------------------------------------------- one scheduling pass on 5 qubits
\* operations of the circuits given to a single pass: under the identity
\* mapping three CX gates on pairs of nodes that are not adjacent, three on
\* edges, and two single-qubit gates
ScanGates ==
    {[name |-> "cx", qargs |-> p] : p \in {<<0, 2>>, <<1, 4>>, <<2, 3>>, <<0, 1>>, <<3, 4>>, <<1, 3>>}}
    \cup {[name |-> "h", qargs |-> <<a>>] : a \in {1, 4}}

ScanCircuits == UNION {[1 .. n -> ScanGates] : n \in 0 .. MaxScanLen}

ScanInit == Constructed(ScanCircuits) /\ variant = "sequential"

ScanNext == FirstReset

ScanSpec == ScanInit /\ [][ScanNext]_vars

\* the loop of _schedulable_gates without its early stop
RECURSIVE FullScan(_, _, _, _, _, _)
FullScan(ops, gates, locked_nodes, q2n, routed, comm) ==
    IF ops = <<>> THEN gates
    ELSE LET op_node == Head(ops)
             nodes == NodesOf(op_node, q2n)
             ok == _is_schedulable(nodes, locked_nodes)
             gates2 == IF ok THEN AddGate(gates, <<op_node, nodes>>)
                       ELSE IF comm
                            THEN AddAll(gates, CommutingGates(op_node, 1, q2n, routed, locked_nodes))
                            ELSE gates
             locked2 == IF ok THEN locked_nodes ELSE locked_nodes \cup Range(nodes)
         IN  FullScan(Tail(ops), gates2, locked2, q2n, routed, comm)

\* how many operations the loop looks at before every node is locked
RECURSIVE ScannedBeforeStop(_, _, _)
ScannedBeforeStop(ops, locked_nodes, q2n) ==
    IF ops = <<>> THEN 0
    ELSE LET nodes == NodesOf(Head(ops), q2n)
             locked2 == IF _is_schedulable(nodes, locked_nodes) THEN locked_nodes
                        ELSE locked_nodes \cup Range(nodes)
         IN  IF Cardinality(locked2) = num_qubits THEN 1
             ELSE 1 + ScannedBeforeStop(Tail(ops), locked2, q2n)

\* the operations of the remaining DAG in the order a full pass scans them
ScanOrder == Chain(dag_layers(dag))

\* C34: the early stop of a scheduling pass preserves the result: the list
\* returned when the scan stops as soon as every node is locked is the list a
\* scan of all remaining operations returns, with commutation analysis
\* enabled or disabled.
C34_EarlyStopPreserving ==
    BaseSchedulableGates(dag, qubit_to_node, routed_op_nodes, commutation_analysis, FALSE)
        = FullScan(ScanOrder, <<>>, {}, qubit_to_node, routed_op_nodes, commutation_analysis)

\* the pass of reset, with commutation analysis, has stopped early: every
\* node was locked before the last operation of the scan order was reached,
\* that operation is on adjacent nodes and is still in the DAG, and the pass
\* has committed a gate
C34_Witness ==
    /\ call.op = "reset"
    /\ commutation_analysis
    /\ routed_gates # <<>>
    /\ \E order \in {Chain(dag_layers(OpNodes))} :
          /\ ScannedBeforeStop(order, {}, qubit_to_node) < Len(order)
          /\ order[Len(order)] \in dag
          /\ _is_schedulable(NodesOf(order[Len(order)], qubit_to_node), {})

====
